---------------------------- MODULE Spec2Model ----------------------------
(***************************************************************************)
(* Morse pipeline of the JTKJ PicoRTOS project: input_task classifies IMU  *)
(* samples and BUTTON1 edges into morse_event_t values, g_morse_q carries  *)
(* them, encoder_task assembles the outgoing Morse string and prints it.   *)
(* Two program images are modelled: src/src/main.c ("main") and the        *)
(* template src/src/morse_project.c ("morse_project").                     *)
(***************************************************************************)
EXTENDS Integers, Sequences, FiniteSets, TLC

VARIABLES
    prog,       \* which program image runs: "main" or "morse_project"
    out,        \* encoder_task: out[0 .. len-1], the bytes written so far
    ev,         \* encoder_task: the event handled last ("none" before the first)
    wr,         \* bytes encoder_task wrote to stdout while handling ev
    msg,        \* expansion of "%.*s" (len, out) while handling ev
    out0,       \* history: out when the handler of ev started
    hist,       \* history: events received for the current / last message
    runbase,    \* history: out before the current run of equal events began
    tail,       \* environment: events delivered after the leading Dot run
    q,          \* g_morse_q, oldest event first
    sent,       \* history: every event xQueueSend has enqueued, in order
    rcvd,       \* history: every event xQueueReceive has returned, in order
    dropped,    \* history: events a send gave up on (queue full, wait expired)
    pc,         \* input_task: position in its loop
    pending,    \* input_task: the event of the xQueueSend it is at
    sample,     \* input_task: what ICM42670_read_sensor_data returned this tick
    btn_prev, btn_now, button_press_count, x_tilted, y_tilted,
    i,          \* morse_project.c input_task: index into demo[]
    ticks,      \* environment: sampling ticks elapsed, capped at TiltTicks
    waited,     \* history: the queue was full when input_task reached its send
    tickev,     \* observer: events input_task sent in the current / last tick
    tick0,      \* observer: latches, press count and btn_prev when the tick began
    run,        \* observer: tilt events sent since the last stationary tick
    clean,      \* observer: no Dot/Dash sent since the press count was last 0
    nrel,       \* observer: button releases since then (while clean)
    npress,     \* observer: presses since start, EndMessage or Dot/Dash
    lastrel,    \* observer: what the latest button release made the task send
    allfail,    \* observer: every sensor read so far has failed
    phys_prev,  \* observer: level of BUTTON1 at the previous tick
    turn        \* observer: parity of the number of events encoder_task received

encVars == <<out, ev, wr, msg, out0, hist, runbase>>
inVars  == <<pc, pending, sample, btn_prev, btn_now, button_press_count,
             x_tilted, y_tilted, i, ticks, waited>>
qVars   == <<q, sent, rcvd, dropped>>
obsVars == <<tickev, tick0, run, clean, nrel, npress, lastrel, allfail,
             phys_prev>>
vars    == <<prog, encVars, tail, qVars, inVars, obsVars, turn>>

-----------------------------------------------------------------------------
(* Program constants *)

TX_BUF_LEN == 256
MORSE_Q_LEN == 32

EV_DOT == "EV_DOT"
EV_DASH == "EV_DASH"
EV_GAP_LETTER == "EV_GAP_LETTER"
EV_GAP_WORD == "EV_GAP_WORD"
EV_END_MSG == "EV_END_MSG"
morse_event_t == {EV_DOT, EV_DASH, EV_GAP_LETTER, EV_GAP_WORD, EV_END_MSG}

Programs == {"main", "morse_project"}

(* Bounds of the exploration *)
LowZone == 3     \* a message may leave its leading Dot run after <= LowZone Dots ...
HighZone == 4    \* ... or once the run has reached TX_BUF_LEN - HighZone events
MaxTail == 5     \* events delivered after the leading Dot run, per message
TiltTicks == 3   \* sampling ticks in which the IMU may report a tilt
Extra == 2       \* events sent beyond the capacity of the queue

-----------------------------------------------------------------------------
(* The literal strings main.c's encoder_task prints, byte by byte *)

Str_Dot ==
    <<"X", "-", "a", "x", "i", "s", " ", "t", "i", "l", "t", " ", "-", ">", " ", "D", "O", "T", "\n">>
Str_Dash ==
    <<"Y", "-", "a", "x", "i", "s", " ", "t", "i", "l", "t", " ", "-", ">", " ", "D", "A", "S", "H", "\n">>
Str_LetterGap ==
    <<"B", "u", "t", "t", "o", "n", " ", "p", "r", "e", "s", "s", "e", "d", " ", "o", "n", "c", "e", ":", " ", "A", "d", "d", "e", "d", " ", "l", "e", "t", "t", "e", "r", " ", "g", "a", "p", "\n">>
Str_WordGap ==
    <<"B", "u", "t", "t", "o", "n", " ", "p", "r", "e", "s", "s", "e", "d", " ", "t", "w", "i", "c", "e", ":", " ", "A", "d", "d", "e", "d", " ", "w", "o", "r", "d", " ", "g", "a", "p", "\n">>
Str_Complete ==
    <<"\n", "=", "=", "=", " ", "M", "E", "S", "S", "A", "G", "E", " ", "C", "O", "M", "P", "L", "E", "T", "E", " ", "=", "=", "=", "\n">>
Str_Message ==
    <<"M", "e", "s", "s", "a", "g", "e", ":", " ">>
Str_Sending ==
    <<"S", "e", "n", "d", "i", "n", "g", " ", "t", "o", " ", "S", "e", "r", "i", "a", "l", " ", "C", "l", "i", "e", "n", "t", ".", ".", ".", "\n">>
Str_SentReset ==
    <<"M", "e", "s", "s", "a", "g", "e", " ", "s", "e", "n", "t", " ", "a", "n", "d", " ", "r", "e", "s", "e", "t", ".", "\n", "\n">>

-----------------------------------------------------------------------------
(* encoder_task: the buffer operations.  o stands for out[0 .. len-1].   *)

len == Len(out)

\* out[len++] = c
Putc(o, c) == Append(o, c)

\* mutant of HasRoom: the operands of the bound check are swapped
HasRoomPastEnd(o, n) == Len(o) < TX_BUF_LEN + n

\* len + n < TX_BUF_LEN
HasRoom(o, n) == Len(o) + n < TX_BUF_LEN

\* len && out[len - 1] != ' ' && len + 1 < TX_BUF_LEN
NeedsSpace(o) == Len(o) # 0 /\ o[Len(o)] # " " /\ HasRoom(o, 1)

\* case EV_DOT
OnDot(o) == IF HasRoom(o, 1) THEN Putc(o, ".") ELSE o

\* case EV_DASH
OnDash(o) == IF HasRoom(o, 1) THEN Putc(o, "-") ELSE o

\* mutant of OnGapLetter: the last-character test is forgotten
OnGapLetterAlways(o) == IF HasRoom(o, 1) THEN Putc(o, " ") ELSE o

\* case EV_GAP_LETTER
OnGapLetter(o) == IF NeedsSpace(o) THEN Putc(o, " ") ELSE o

\* case EV_GAP_WORD, after its first if
GapWordFirst(o) == IF NeedsSpace(o) THEN Putc(o, " ") ELSE o

\* case EV_GAP_WORD
OnGapWord(o) ==
    LET o1 == GapWordFirst(o)
    IN  IF HasRoom(o1, 1) THEN Putc(o1, " ") ELSE o1

\* case EV_END_MSG up to the printf: the bytes of out[0 .. len-1] it prints
OnEndMsg(o) ==
    LET o1 == IF NeedsSpace(o) THEN Putc(o, " ") ELSE o
    IN  IF HasRoom(o1, 2) THEN Putc(Putc(o1, " "), "\n") ELSE o1

\* mutant of ResetLen: the reset of the buffer is forgotten
KeepBuffer(o) == o

\* len = 0 after the flush
ResetLen(o) == << >>

\* out[0 .. len-1] when the handler of event e breaks out of the switch
\* (for EV_END_MSG: before "len = 0")
Handled(e, o) ==
    CASE e = EV_DOT        -> OnDot(o)
      [] e = EV_DASH       -> OnDash(o)
      [] e = EV_GAP_LETTER -> OnGapLetter(o)
      [] e = EV_GAP_WORD   -> OnGapWord(o)
      [] e = EV_END_MSG    -> OnEndMsg(o)

\* what the handler of e prints to stdout; o is the buffer before, o2 after
Stdout(p, e, o, o2) ==
    IF p = "morse_project"
    THEN IF e = EV_END_MSG THEN o2 ELSE << >>
    ELSE CASE e = EV_DOT        -> IF HasRoom(o, 1) THEN Str_Dot ELSE << >>
           [] e = EV_DASH       -> IF HasRoom(o, 1) THEN Str_Dash ELSE << >>
           [] e = EV_GAP_LETTER -> IF NeedsSpace(o) THEN Str_LetterGap ELSE << >>
           [] e = EV_GAP_WORD   -> IF HasRoom(GapWordFirst(o), 1)
                                   THEN Str_WordGap ELSE << >>
           [] e = EV_END_MSG    -> Str_Complete \o Str_Message \o o2
                                   \o Str_Sending \o Str_SentReset

\* one iteration of encoder_task's loop on the event e it received
Encoder(e) ==
    LET o2 == Handled(e, out)
    IN  /\ out' = IF e = EV_END_MSG THEN ResetLen(o2) ELSE o2
        /\ msg' = IF e = EV_END_MSG THEN o2 ELSE << >>
        /\ wr' = Stdout(prog, e, out, o2)
        /\ ev' = e
        /\ out0' = out
        /\ hist' = IF ev = EV_END_MSG THEN <<e>> ELSE Append(hist, e)
        /\ runbase' = IF e = ev /\ e # EV_END_MSG THEN runbase ELSE out

EncInit ==
    /\ prog \in Programs
    /\ out = << >>
    /\ ev = "none"
    /\ wr = << >>
    /\ msg = << >>
    /\ out0 = << >>
    /\ hist = << >>
    /\ runbase = << >>

-----------------------------------------------------------------------------
(* SpecEnc: encoder_task alone, fed every event sequence of the shape      *)
(* Dot^n . t with Len(t) <= MaxTail, where t starts after at most LowZone  *)
(* or at least TX_BUF_LEN - HighZone leading Dots.                         *)

\* no successful sensor read in this tick
NoSample == [ok |-> FALSE, ax |-> 0, ay |-> 0, az |-> 0]

\* the observers before the first tick
ObsInit ==
    /\ tickev = << >>
    /\ tick0 = [x |-> FALSE, y |-> FALSE, n |-> 0, prev |-> FALSE]
    /\ run = << >>
    /\ clean = TRUE
    /\ nrel = 0
    /\ npress = 0
    /\ lastrel = [e |-> "none", nrel |-> 0, npress |-> 0, clean |-> FALSE]
    /\ allfail = TRUE
    /\ phys_prev = FALSE
    /\ turn = 0

CurHist == IF ev = EV_END_MSG THEN << >> ELSE hist
CurTail == IF ev = EV_END_MSG THEN 0 ELSE tail

LeadingDot(e) == e = EV_DOT /\ CurTail = 0 /\ Len(CurHist) <= TX_BUF_LEN

TailEvent(e) ==
    /\ ~ LeadingDot(e)
    /\ CurTail < MaxTail
    /\ \/ CurTail > 0
       \/ Len(CurHist) <= LowZone
       \/ Len(CurHist) >= TX_BUF_LEN - HighZone

Idle ==
    /\ q = << >> /\ sent = << >> /\ rcvd = << >> /\ dropped = << >>
    /\ pc = "off" /\ pending = "none" /\ sample = NoSample
    /\ btn_prev = FALSE /\ btn_now = FALSE /\ button_press_count = 0
    /\ x_tilted = FALSE /\ y_tilted = FALSE /\ i = 0 /\ ticks = 0
    /\ waited = FALSE

EncDeliver ==
    \E e \in morse_event_t :
        /\ LeadingDot(e) \/ TailEvent(e)
        /\ Encoder(e)
        /\ tail' = IF LeadingDot(e) THEN 0 ELSE CurTail + 1
        /\ UNCHANGED <<prog, qVars, inVars, obsVars, turn>>

InitEnc == EncInit /\ tail = 0 /\ Idle /\ ObsInit
NextEnc == EncDeliver
SpecEnc == InitEnc /\ [][NextEnc]_vars

-----------------------------------------------------------------------------
(* g_morse_q as the tasks use it *)

portMAX_DELAY == "portMAX_DELAY"
NoWait == "no_wait"

\* the xTicksToWait argument of every xQueueSend of input_task
SendTicksToWait == portMAX_DELAY

\* mutant of xQueueSend: the event is posted to the front of the queue
xQueueSendToFront(queue, e) == <<e>> \o queue

\* xQueueSend(g_morse_q, &ev, ...) with room in the queue: post to the back
xQueueSend(queue, e) == Append(queue, e)

\* the item xQueueReceive(g_morse_q, &ev, portMAX_DELAY) copies out
xQueueReceive(queue) == Head(queue)

\* xQueueSend(g_morse_q, &e, SendTicksToWait) by input_task: with the queue
\* full the caller stays blocked while it waits forever; a finite wait that
\* expires returns errQUEUE_FULL, which input_task ignores
QueueSend(e) ==
    /\ Len(sent) < MORSE_Q_LEN + Extra
    /\ Len(q) < MORSE_Q_LEN \/ SendTicksToWait # portMAX_DELAY
    /\ IF Len(q) < MORSE_Q_LEN
       THEN /\ q' = xQueueSend(q, e)
            /\ sent' = Append(sent, e)
            /\ dropped' = dropped
       ELSE /\ dropped' = Append(dropped, e)
            /\ UNCHANGED <<q, sent>>
    /\ rcvd' = rcvd

-----------------------------------------------------------------------------
(* main.c input_task.  Accelerations are in hundredths of g. *)

MOVE_THRESHOLD == 35
STATIONARY_BAND == 10
ONE_G == 100

Abs(x) == IF x < 0 THEN -x ELSE x

AxValues == {-50, 0, 20}
AyValues == {0, 50}
AzValues == {80, 100}

Samples ==
    {NoSample} \cup
    {[ok |-> TRUE, ax |-> x, ay |-> y, az |-> z] :
        x \in AxValues, y \in AyValues, z \in AzValues}

\* a failed read, or the device at rest
QuietSamples == {NoSample, [ok |-> TRUE, ax |-> 0, ay |-> 0, az |-> ONE_G]}

\* bool is_stationary
is_stationary(s) ==
    /\ Abs(s.ax) < STATIONARY_BAND
    /\ Abs(s.ay) < STATIONARY_BAND
    /\ Abs(s.az - ONE_G) < STATIONARY_BAND

\* mutant of TiltEvent: the Y axis is tested before the X axis
TiltEventYFirst(s) ==
    IF ~ s.ok \/ is_stationary(s) THEN "none"
    ELSE IF Abs(s.ay) > MOVE_THRESHOLD /\ ~ y_tilted THEN EV_DASH
    ELSE IF Abs(s.ax) > MOVE_THRESHOLD /\ ~ x_tilted THEN EV_DOT
    ELSE "none"

\* the event the tilt branch sends for sample s, "none" if it sends nothing
TiltEvent(s) ==
    IF ~ s.ok \/ is_stationary(s) THEN "none"
    ELSE IF Abs(s.ax) > MOVE_THRESHOLD /\ ~ x_tilted THEN EV_DOT
    ELSE IF Abs(s.ay) > MOVE_THRESHOLD /\ ~ y_tilted THEN EV_DASH
    ELSE "none"

\* mutant of ReleaseEvent: the press count is read as if it started at 0
ReleaseEventFromZero(n) ==
    CASE n = 0 -> EV_GAP_LETTER
      [] n = 1 -> EV_GAP_WORD
      [] n = 2 -> EV_END_MSG
      [] OTHER -> "none"

\* the event a button release sends for press count n, "none" for no event
ReleaseEvent(n) ==
    CASE n = 1 -> EV_GAP_LETTER
      [] n = 2 -> EV_GAP_WORD
      [] n = 3 -> EV_END_MSG
      [] OTHER -> "none"

\* mutant of XLatchAfterSample: a failed read clears the latch as well
XLatchClearedUnlessMoving(s, xt) == IF ~ s.ok \/ is_stationary(s) THEN FALSE ELSE xt

\* x_tilted after a tick's tilt branch that sends nothing
XLatchAfterSample(s, xt) == IF s.ok /\ is_stationary(s) THEN FALSE ELSE xt

\* mutant of YLatchAfterSample: only x_tilted is reset when stationary
YLatchNotCleared(s, yt) == yt

\* y_tilted after a tick's tilt branch that sends nothing
YLatchAfterSample(s, yt) == IF s.ok /\ is_stationary(s) THEN FALSE ELSE yt

\* mutant of XLatchAfterSend: x_tilted = true is forgotten
XLatchForgotten(e, xt) == xt

\* mutant of XLatchAfterSend: sending a Dash re-arms the X axis
XLatchRearmed(e, xt) == e = EV_DOT

\* x_tilted after the tilt branch has sent e
XLatchAfterSend(e, xt) == IF e = EV_DOT THEN TRUE ELSE xt

\* y_tilted after the tilt branch has sent e
YLatchAfterSend(e, yt) == IF e = EV_DASH THEN TRUE ELSE yt

\* mutant of CountAfterTilt: a tilt emission resets the press count to 0
CountZeroAfterTilt(n) == 0

\* button_press_count after the tilt branch has sent its event
CountAfterTilt(n) == 1

\* mutant of CountAfterSend: the reset after EV_END_MSG is forgotten
CountKept(e, n) == n

\* button_press_count after the release branch has sent e
CountAfterSend(e, n) == IF e = EV_END_MSG THEN 0 ELSE n

\* mutant of ButtonStepRuns: the button code sits inside the
\* "read == 0" block
ButtonStepNeedsSample(s) == s.ok

\* the button code follows the closing brace of the "read == 0" block: it
\* runs in every tick, whatever the read returned
ButtonStepRuns(s) == TRUE

\* step 1 of a tick, the sample drawn from S: read the IMU and run the tilt
\* branch up to its xQueueSend
InputSampleFrom(S) ==
    /\ prog = "main" /\ pc = "imu"
    /\ \E s \in S :
          /\ sample' = s
          /\ IF TiltEvent(s) # "none"
             THEN /\ pending' = TiltEvent(s)
                  /\ pc' = "send_tilt"
                  /\ waited' = (Len(q) >= MORSE_Q_LEN)
                  /\ UNCHANGED <<x_tilted, y_tilted>>
             ELSE /\ x_tilted' = XLatchAfterSample(s, x_tilted)
                  /\ y_tilted' = YLatchAfterSample(s, y_tilted)
                  /\ pc' = "gpio"
                  /\ UNCHANGED <<pending, waited>>
    /\ ticks' = IF ticks < TiltTicks THEN ticks + 1 ELSE ticks
    /\ UNCHANGED <<prog, encVars, tail, qVars, btn_prev, btn_now,
                   button_press_count, i>>

\* step 1 of a tick
InputSample ==
    InputSampleFrom(IF ticks < TiltTicks THEN Samples ELSE QuietSamples)

\* the xQueueSend of the tilt branch and the assignments after it
InputSendTilt ==
    /\ prog = "main" /\ pc = "send_tilt"
    /\ QueueSend(pending)
    /\ x_tilted' = XLatchAfterSend(pending, x_tilted)
    /\ y_tilted' = YLatchAfterSend(pending, y_tilted)
    /\ button_press_count' = CountAfterTilt(button_press_count)
    /\ pending' = "none"
    /\ pc' = "gpio"
    /\ UNCHANGED <<prog, encVars, tail, sample, btn_prev, btn_now, i, ticks,
                   waited>>

\* step 2 of a tick with BUTTON1 at level b (TRUE: pressed): read it, count
\* a press, decide what a release sends
InputButtonRead(b) ==
    /\ prog = "main" /\ pc = "gpio"
    /\ IF ButtonStepRuns(sample)
       THEN LET n == IF b /\ ~ btn_prev
                     THEN button_press_count + 1 ELSE button_press_count
                released == ~ b /\ btn_prev
            IN  /\ btn_now' = b
                /\ button_press_count' = n
                /\ IF released /\ ReleaseEvent(n) # "none"
                   THEN /\ pending' = ReleaseEvent(n)
                        /\ pc' = "send_btn"
                        /\ waited' = (Len(q) >= MORSE_Q_LEN)
                        /\ btn_prev' = btn_prev
                   ELSE /\ btn_prev' = b
                        /\ pc' = "imu"
                        /\ UNCHANGED <<pending, waited>>
       ELSE /\ pc' = "imu"
            /\ UNCHANGED <<btn_now, button_press_count, pending, waited,
                           btn_prev>>
    /\ UNCHANGED <<prog, encVars, tail, qVars, sample, x_tilted, y_tilted, i,
                   ticks>>

\* step 2 of a tick
InputButton == \E b \in BOOLEAN : InputButtonRead(b)

\* the xQueueSend of the release branch, the reset after EV_END_MSG,
\* btn_prev = btn_now and the vTaskDelay
InputSendButton ==
    /\ prog = "main" /\ pc = "send_btn"
    /\ QueueSend(pending)
    /\ button_press_count' = CountAfterSend(pending, button_press_count)
    /\ btn_prev' = btn_now
    /\ pending' = "none"
    /\ pc' = "imu"
    /\ UNCHANGED <<prog, encVars, tail, sample, btn_now, x_tilted, y_tilted,
                   i, ticks, waited>>

-----------------------------------------------------------------------------
(* morse_project.c input_task: the demo pattern *)

demo == <<EV_DOT, EV_DASH, EV_GAP_WORD, EV_END_MSG>>

\* xQueueSend(g_morse_q, &demo[i], portMAX_DELAY), the delay and ++i
DemoSend ==
    /\ prog = "morse_project" /\ pc = "demo"
    /\ QueueSend(demo[i + 1])
    /\ i' = (i + 1) % Len(demo)
    /\ waited' = (Len(q') >= MORSE_Q_LEN)
    /\ UNCHANGED <<prog, encVars, tail, pc, pending, sample, btn_prev,
                   btn_now, button_press_count, x_tilted, y_tilted, ticks>>

-----------------------------------------------------------------------------
(* encoder_task on the queue *)

\* mutant of EncoderRuns: the break of the EV_END_MSG case leaves the loop
StopsAfterFlush(e) == e # EV_END_MSG

\* while (1): encoder_task goes back to xQueueReceive after every event,
\* e being the event it handled last
EncoderRuns(e) == TRUE

\* one iteration of encoder_task's loop: receive the oldest event, handle it
EncoderStep ==
    /\ EncoderRuns(ev)
    /\ q # << >>
    /\ Encoder(xQueueReceive(q))
    /\ q' = Tail(q)
    /\ UNCHANGED <<prog, tail, dropped, inVars>>

EncoderTask ==
    /\ EncoderStep
    /\ rcvd' = Append(rcvd, xQueueReceive(q))
    /\ sent' = sent

-----------------------------------------------------------------------------
(* SpecSys: input_task and encoder_task of one program image, interleaved. *)
(* The device is tilted only during the first TiltTicks sampling ticks of  *)
(* main.c's input_task, and at most MORSE_Q_LEN + Extra events are sent.   *)

InitSys ==
    /\ EncInit
    /\ tail = 0
    /\ q = << >> /\ sent = << >> /\ rcvd = << >> /\ dropped = << >>
    /\ pc = IF prog = "main" THEN "imu" ELSE "demo"
    /\ pending = "none" /\ sample = NoSample
    /\ btn_prev = FALSE /\ btn_now = FALSE /\ button_press_count = 0
    /\ x_tilted = FALSE /\ y_tilted = FALSE /\ i = 0 /\ ticks = 0
    /\ waited = FALSE
    /\ ObsInit

NextSys ==
    \/ InputSample /\ UNCHANGED <<obsVars, turn>>
    \/ InputSendTilt /\ UNCHANGED <<obsVars, turn>>
    \/ InputButton /\ UNCHANGED <<obsVars, turn>>
    \/ InputSendButton /\ UNCHANGED <<obsVars, turn>>
    \/ DemoSend /\ UNCHANGED <<obsVars, turn>>
    \/ EncoderTask /\ UNCHANGED <<obsVars, turn>>

SpecSys == InitSys /\ [][NextSys]_vars

-----------------------------------------------------------------------------
(* SpecIn: main.c's input_task observed at the sending end of g_morse_q,   *)
(* with every sample and every button level free in every tick.  The      *)
(* encoder_task side is the consumer that takes each event off the queue   *)
(* before input_task runs on; the observers record what a tick sent.       *)

\* the longest history of tilt events and the highest count the observers keep
MaxObs == 4

Bump(n) == IF n < MaxObs THEN n + 1 ELSE n

Keep(h, e) == IF Len(h) < MaxObs THEN Append(h, e) ELSE h

\* the sample reads as the device lying flat and still
AtRest(s) ==
    /\ s.ok
    /\ Abs(s.ax) < STATIONARY_BAND /\ Abs(s.ay) < STATIONARY_BAND
    /\ Abs(s.az - ONE_G) < STATIONARY_BAND

InSample ==
    /\ q = << >>
    /\ InputSampleFrom(Samples)
    /\ tickev' = << >>
    /\ tick0' = [x |-> x_tilted, y |-> y_tilted, n |-> button_press_count,
                 prev |-> btn_prev]
    /\ run' = IF AtRest(sample') THEN << >> ELSE run
    /\ allfail' = (allfail /\ ~ sample'.ok)
    /\ UNCHANGED <<clean, nrel, npress, lastrel, phys_prev>>

InSendTilt ==
    /\ q = << >>
    /\ InputSendTilt
    /\ tickev' = Append(tickev, pending)
    /\ run' = Keep(run, pending)
    /\ clean' = FALSE /\ nrel' = 0 /\ npress' = 0
    /\ UNCHANGED <<tick0, lastrel, allfail, phys_prev>>

InButton ==
    /\ q = << >>
    /\ \E b \in BOOLEAN :
          /\ InputButtonRead(b)
          /\ phys_prev' = b
          /\ npress' = IF b /\ ~ phys_prev THEN Bump(npress) ELSE npress
          /\ nrel' = IF ~ b /\ phys_prev /\ clean THEN Bump(nrel) ELSE nrel
          /\ lastrel' = IF ~ b /\ phys_prev
                        THEN [e |-> IF pc' = "send_btn" THEN pending' ELSE "none",
                              nrel |-> nrel', npress |-> npress',
                              clean |-> clean]
                        ELSE lastrel
    /\ UNCHANGED <<tickev, tick0, run, clean, allfail>>

InSendButton ==
    /\ q = << >>
    /\ InputSendButton
    /\ tickev' = Append(tickev, pending)
    /\ IF pending = EV_END_MSG
       THEN clean' = TRUE /\ nrel' = 0 /\ npress' = 0
       ELSE UNCHANGED <<clean, nrel, npress>>
    /\ UNCHANGED <<tick0, run, lastrel, allfail, phys_prev>>

\* the consumer takes the waiting event
InDrain ==
    /\ q # << >>
    /\ q' = Tail(q)
    /\ sent' = << >>
    /\ UNCHANGED <<prog, encVars, tail, rcvd, dropped, inVars, obsVars>>

InitIn == InitSys /\ prog = "main"

NextIn ==
    \/ InSample /\ UNCHANGED turn
    \/ InSendTilt /\ UNCHANGED turn
    \/ InButton /\ UNCHANGED turn
    \/ InSendButton /\ UNCHANGED turn
    \/ InDrain /\ UNCHANGED turn

SpecIn == InitIn /\ [][NextIn]_vars

-----------------------------------------------------------------------------
(* SpecLive: both tasks of one program image running for ever.  The        *)
(* histories sent and rcvd keep only the events still in g_morse_q; turn   *)
(* changes at every receive.  encoder_task, blocked only in xQueueReceive  *)
(* and of the same priority as input_task, which sleeps in every tick,     *)
(* runs whenever it stays ready: weak fairness.                            *)

\* a step of input_task
LiveStep(A) == A /\ UNCHANGED <<obsVars, turn>>

LiveEncoderTask ==
    /\ EncoderStep
    /\ sent' = Tail(sent)
    /\ rcvd' = rcvd
    /\ turn' = 1 - turn
    /\ UNCHANGED obsVars

InitLive == InitSys

NextLive ==
    \/ LiveStep(InputSample)
    \/ LiveStep(InputSendTilt)
    \/ LiveStep(InputButton)
    \/ LiveStep(InputSendButton)
    \/ LiveStep(DemoSend)
    \/ LiveEncoderTask

SpecLive == InitLive /\ [][NextLive]_vars /\ WF_vars(LiveEncoderTask)

-----------------------------------------------------------------------------
(* Vocabulary of the properties *)

Wire == {".", "-", " ", "\n"}

Last(s) == s[Len(s)]

IsPrefix(s, t) == Len(s) <= Len(t) /\ SubSeq(t, 1, Len(s)) = s

EndsWith(s, t) ==
    Len(t) <= Len(s) /\ SubSeq(s, Len(s) - Len(t) + 1, Len(s)) = t

TripleSpace(s) ==
    \E k \in 1 .. Len(s) - 2 : s[k] = " " /\ s[k + 1] = " " /\ s[k + 2] = " "

\* the bytes of the last handler's result: the flushed message for
\* EV_END_MSG, the buffer otherwise
Result == IF ev = EV_END_MSG THEN msg ELSE out

\* the protocol's encoding of an event sequence h that ends in EV_END_MSG
\* and holds no EV_GAP_WORD: one byte per event, then "  \n"
Sym(e) == CASE e = EV_DOT -> "." [] e = EV_DASH -> "-" [] OTHER -> " "

RefEnc(h) ==
    [k \in 1 .. Len(h) + 2 |->
        IF k < Len(h) THEN Sym(h[k])
        ELSE IF k <= Len(h) + 1 THEN " " ELSE "\n"]

\* no EV_GAP_WORD, one final EV_END_MSG, and every EV_GAP_LETTER and the
\* EV_END_MSG directly after a Dot or Dash
Regular(h) ==
    /\ Len(h) >= 2
    /\ Last(h) = EV_END_MSG
    /\ \A k \in 1 .. Len(h) - 1 : h[k] \in {EV_DOT, EV_DASH, EV_GAP_LETTER}
    /\ \A k \in 1 .. Len(h) :
          h[k] \in {EV_GAP_LETTER, EV_END_MSG}
             => k > 1 /\ h[k - 1] \in {EV_DOT, EV_DASH}

-----------------------------------------------------------------------------
(* Properties of encoder_task, checked under SpecEnc *)

\* C1: every message flushed on EV_END_MSG ends with exactly the three
\* bytes space, space, newline, whatever preceded and whatever the fill
\* level of the buffer.
C1_TerminatorLaw ==
    ev = EV_END_MSG => EndsWith(msg, <<" ", " ", "\n">>)

\* C2: neither the output buffer nor any flushed message ever holds three
\* or more consecutive spaces.
C2_NoTripleSpace ==
    ~ TripleSpace(out) /\ ~ TripleSpace(msg)

\* C3: from an empty buffer [Dot, Dash, GapWord, EndMessage] flushes exactly
\* ".-  \n", and in general an EndMessage directly after a GapWord adds only
\* the newline to a buffer that ends in the word gap's two spaces (when
\* there is room for it).
C3_DemoPattern ==
    /\ (ev = EV_END_MSG /\ hist = <<EV_DOT, EV_DASH, EV_GAP_WORD, EV_END_MSG>>)
          => msg = <<".", "-", " ", " ", "\n">>
    /\ ( /\ ev = EV_END_MSG
         /\ Len(hist) >= 2
         /\ hist[Len(hist) - 1] = EV_GAP_WORD
         /\ EndsWith(out0, <<" ", " ">>)
         /\ Len(out0) + 2 < TX_BUF_LEN )
          => msg = Append(out0, "\n")

\* C4 as stated: a regular event sequence whose encoding fits in the
\* TX_BUF_LEN bytes of out is flushed as exactly its reference encoding.
C4_ReferenceFitsBuffer ==
    (ev = EV_END_MSG /\ Regular(hist) /\ Len(RefEnc(hist)) <= TX_BUF_LEN)
        => msg = RefEnc(hist)

\* C4 short of the last byte of out (not the claim as stated): a regular
\* event sequence whose reference encoding is at most TX_BUF_LEN - 1 bytes
\* long is flushed as exactly its reference encoding.
C4_ReferenceEncoding ==
    (ev = EV_END_MSG /\ Regular(hist) /\ Len(RefEnc(hist)) < TX_BUF_LEN)
        => msg = RefEnc(hist)

C4_Witness ==
    /\ ev = EV_END_MSG
    /\ hist = <<EV_DOT, EV_GAP_LETTER, EV_DOT, EV_DOT, EV_END_MSG>>
    /\ msg = <<".", " ", ".", ".", " ", " ", "\n">>

\* C5 as stated: after a run of k >= 1 consecutive GapLetter events the
\* buffer is the buffer before the run plus exactly one space.
C5_RunAddsOneSpace ==
    ev = EV_GAP_LETTER => out = Append(runbase, " ")

\* C5 as amended: a run of k >= 1 consecutive GapLetter events leaves the
\* buffer that one GapLetter leaves: the buffer before the run plus one
\* space when that buffer is non-empty, does not end in a space and has
\* len + 1 < TX_BUF_LEN, and the buffer before the run unchanged otherwise.
C5_GapLetterRun ==
    ev = EV_GAP_LETTER =>
        /\ out \in {runbase, Append(runbase, " ")}
        /\ (out = Append(runbase, " "))
              <=> ( /\ runbase # << >>
                    /\ Last(runbase) # " "
                    /\ Len(runbase) + 1 < TX_BUF_LEN )

C5_Witness ==
    /\ ev = EV_GAP_LETTER
    /\ hist = <<EV_DOT, EV_DASH, EV_GAP_LETTER, EV_GAP_LETTER, EV_GAP_LETTER>>
    /\ runbase = <<".", "-">>
    /\ out = <<".", "-", " ">>

\* C6: after a GapWord handled with room for two more bytes, the buffer
\* ends with exactly two consecutive spaces.
C6_GapWordTwoSpaces ==
    (ev = EV_GAP_WORD /\ Len(out0) + 2 < TX_BUF_LEN) =>
        /\ EndsWith(out, <<" ", " ">>)
        /\ ~ EndsWith(out, <<" ", " ", " ">>)

\* C9: the buffer never holds more than TX_BUF_LEN bytes; a handler only
\* appends to what the buffer held (the flushed message starts with it), and
\* when there is no room for one more byte (len + 1 >= TX_BUF_LEN) the
\* handler leaves length and content as they were.
C9_BufferBounded ==
    /\ len <= TX_BUF_LEN
    /\ Len(msg) <= TX_BUF_LEN
    /\ ev # "none" =>
          /\ IsPrefix(out0, Result)
          /\ Len(out0) + 1 >= TX_BUF_LEN => Result = out0
          /\ ev # EV_END_MSG => out = Result

\* a Dash refused on the full buffer, handled after an earlier refusal
C9_Witness ==
    /\ ev = EV_DASH
    /\ Len(out0) = TX_BUF_LEN - 1
    /\ out = out0
    /\ Len(hist) > TX_BUF_LEN + 1

\* C10: main.c's encoder_task writes only '.', '-', space and newline to
\* stdout, and only as the flush of the message on EndMessage.
C10_SinkOnlyWire ==
    (prog = "main" /\ ev # "none") =>
        /\ \A k \in 1 .. Len(wr) : wr[k] \in Wire
        /\ wr = IF ev = EV_END_MSG THEN msg ELSE << >>

-----------------------------------------------------------------------------
(* Properties of the queue between the tasks, checked under SpecSys *)

\* input_task is at one of its xQueueSend calls
AtSend == pc \in {"send_tilt", "send_btn", "demo"}

\* the event of that call
PendingEvent == IF pc = "demo" THEN demo[i + 1] ELSE pending

\* C7: the events encoder_task has received, followed by the events still
\* in g_morse_q, are exactly the events input_task has sent, in order: the
\* received sequence is a prefix of the sent one, nothing is lost or
\* duplicated, and the encoder handles them in that order.
C7_FifoOrder ==
    /\ sent = rcvd \o q
    /\ IsPrefix(rcvd, sent)
    /\ dropped = << >>
    /\ EndsWith(rcvd, CurHist)
    /\ rcvd # << >> => ev = Last(rcvd)

C7_Witness ==
    /\ prog = "main"
    /\ Len(rcvd) >= 2 /\ rcvd[1] # rcvd[2]
    /\ Len(q) >= 2 /\ q[1] # q[2]

\* C8: g_morse_q never holds more than MORSE_Q_LEN events and no send gives
\* an event up; while the queue is full and input_task is at a send, the
\* only step is encoder_task receiving the oldest event (input_task's state
\* and the sent events do not change); and every send appends exactly the
\* event input_task was waiting to send, to a queue that has room.
C8_QueueBlocks ==
    /\ [](Len(q) <= MORSE_Q_LEN /\ dropped = << >>)
    /\ [][ (AtSend /\ Len(q) = MORSE_Q_LEN)
              => (UNCHANGED <<inVars, sent>> /\ q' = Tail(q)) ]_vars
    /\ [][ (AtSend /\ inVars' # inVars)
              => ( /\ Len(q) < MORSE_Q_LEN
                   /\ q' = Append(q, PendingEvent)
                   /\ sent' = Append(sent, PendingEvent) ) ]_vars

\* main.c's input_task found the queue full at a button send, encoder_task
\* received one event, and the send then completed
C8_Witness ==
    /\ prog = "main"
    /\ waited
    /\ pc = "imu" /\ pending = "none"
    /\ Len(sent) = MORSE_Q_LEN + 1
    /\ Len(rcvd) = 1
    /\ Len(q) = MORSE_Q_LEN

-----------------------------------------------------------------------------
(* Properties of input_task, checked under SpecIn *)

\* the framing events in the order of the press count
Cycle == <<EV_GAP_LETTER, EV_GAP_WORD, EV_END_MSG>>

TiltEvents == {EV_DOT, EV_DASH}

\* input_task is between two ticks, at least one tick done
TickDone == pc = "imu" /\ q = << >> /\ ticks >= 1

\* C11: starting with the press count 0 and the button released, and with
\* no Dot or Dash emitted since, the k-th release of the button emits the
\* k-th of GapLetter, GapWord, EndMessage; there is no fourth: after the
\* EndMessage the press count is 0 again with the button released.
C11_ThreeCycleFraming ==
    /\ (lastrel.clean /\ lastrel.nrel >= 1)
          => (lastrel.nrel <= 3 /\ lastrel.e = Cycle[lastrel.nrel])
    /\ (clean /\ nrel = 0 /\ pc = "imu")
          => button_press_count = (IF btn_prev THEN 1 ELSE 0)
    /\ (TickDone /\ tickev = <<EV_END_MSG>>)
          => (button_press_count = 0 /\ ~ btn_prev)

\* the third release in a row has just sent EndMessage and reset the count
C11_Witness ==
    /\ TickDone
    /\ lastrel = [e |-> EV_END_MSG, nrel |-> 3, npress |-> 3, clean |-> TRUE]
    /\ tickev = <<EV_END_MSG>>
    /\ button_press_count = 0

\* C12: the release that ends the k-th press since task start, since the
\* last EndMessage or since the last Dot/Dash emission makes input_task
\* emit the k-th of GapLetter, GapWord, EndMessage; in particular the first
\* such press-release cycle emits GapLetter.
C12_FirstCycleGapLetter ==
    lastrel.npress \in 1..3 => lastrel.e = Cycle[lastrel.npress]

\* the X (the Y) reading of sample s is a tilt
XTilt(s) == s.ok /\ ~ AtRest(s) /\ Abs(s.ax) > MOVE_THRESHOLD

YTilt(s) == s.ok /\ ~ AtRest(s) /\ Abs(s.ay) > MOVE_THRESHOLD

\* C13: the tilt events emitted since the last stationary tick hold at most
\* one Dot and at most one Dash, so between two Dots (two Dashes) there is a
\* stationary tick; and after a tick that read an X tilt, exactly one Dot
\* has been emitted since the last stationary tick, however many ticks the
\* tilt has lasted.
C13_TiltLatch ==
    /\ \A j, k \in 1..Len(run) : j # k => run[j] # run[k]
    /\ (TickDone /\ XTilt(sample))
          => Len(SelectSeq(run, LAMBDA e : e = EV_DOT)) = 1

\* a tick that read a sustained X tilt (X latched since an earlier tick)
\* has ended without a tilt event
C13_Witness ==
    /\ TickDone
    /\ XTilt(sample) /\ tick0.x
    /\ run = <<EV_DOT>>
    /\ \A k \in 1..Len(tickev) : tickev[k] \notin TiltEvents

\* the tilt branch of the current tick is over
TiltDone == pc \in {"gpio", "send_btn"} \/ TickDone

\* C14 as stated: with X latched by a Dot and Y latched by a later Dash,
\* and no stationary tick since, a tick that reads an X tilt emits Dot
\* again (and the same with the axes exchanged).
C14_OppositeAxisRearms ==
    /\ (TiltDone /\ tick0.x /\ tick0.y /\ XTilt(sample)
          /\ SubSeq(run, 1, 2) = <<EV_DOT, EV_DASH>>)
          => EV_DOT \in {tickev[k] : k \in 1..Len(tickev)}
    /\ (TiltDone /\ tick0.x /\ tick0.y /\ YTilt(sample)
          /\ SubSeq(run, 1, 2) = <<EV_DASH, EV_DOT>>)
          => EV_DASH \in {tickev[k] : k \in 1..Len(tickev)}

\* C14, amended: an axis stays latched from its emission until a tick is
\* classified stationary, whatever the other axis does in between; a tick
\* that starts with both axes latched and is not stationary emits no Dot
\* and no Dash and leaves both latched.
C14_LatchHeldUntilStationary ==
    /\ (\E k \in 1..Len(run) : run[k] = EV_DOT) => x_tilted
    /\ (\E k \in 1..Len(run) : run[k] = EV_DASH) => y_tilted
    /\ (TiltDone /\ tick0.x /\ tick0.y /\ ~ AtRest(sample))
          => ( /\ \A k \in 1..Len(tickev) : tickev[k] \notin TiltEvents
               /\ x_tilted /\ y_tilted )

\* Dot, then Dash, then a tick that reads an X tilt and emits nothing
C14_Witness ==
    /\ TickDone
    /\ tick0.x /\ tick0.y /\ XTilt(sample) /\ ~ YTilt(sample)
    /\ run = <<EV_DOT, EV_DASH>>
    /\ tickev = << >>

\* C15: in a tick whose sample is classified stationary, input_task emits
\* no Dot and no Dash, whatever the button does in that tick, and from the
\* tilt branch to the end of the tick both latches are clear.
C15_StationaryTick ==
    (TiltDone /\ AtRest(sample))
        => ( /\ \A k \in 1..Len(tickev) : tickev[k] \notin TiltEvents
             /\ ~ x_tilted /\ ~ y_tilted )

\* a stationary tick that began with both axes latched and in which a
\* button release sent a framing event
C15_Witness ==
    /\ TickDone
    /\ AtRest(sample)
    /\ tick0.x /\ tick0.y
    /\ Len(tickev) = 1 /\ tickev[1] \in {EV_GAP_LETTER, EV_GAP_WORD, EV_END_MSG}
    /\ ~ x_tilted /\ ~ y_tilted

\* C16 as stated: a tick whose read failed ends with no event emitted and
\* with the latches, the press count and the previous-button state as they
\* were when the tick began.
C16_FailedTickSkipped ==
    (TickDone /\ ~ sample.ok)
        => ( /\ tickev = << >>
             /\ x_tilted = tick0.x /\ y_tilted = tick0.y
             /\ button_press_count = tick0.n
             /\ btn_prev = tick0.prev )

\* C16, amended: in a tick whose read failed the tilt branch is skipped (no
\* Dot, no Dash, both latches as they were, and nothing changed when the
\* button code is reached), while the button code runs as in any other
\* tick: the previous-button state follows BUTTON1, a press is counted and
\* a release may emit a framing event.
C16_FailedTickSkipsTilt ==
    /\ (TiltDone /\ ~ sample.ok)
          => ( /\ \A k \in 1..Len(tickev) : tickev[k] \notin TiltEvents
               /\ x_tilted = tick0.x /\ y_tilted = tick0.y )
    /\ (pc = "gpio" /\ ~ sample.ok)
          => ( /\ tickev = << >>
               /\ button_press_count = tick0.n
               /\ btn_prev = tick0.prev )
    /\ (TickDone /\ ~ sample.ok)
          => ( /\ btn_prev = phys_prev
               /\ button_press_count \in {0, tick0.n, tick0.n + 1} )

\* a failed tick that began with both axes latched, kept them latched, and
\* in which a release sent GapWord
C16_Witness ==
    /\ TickDone
    /\ ~ sample.ok
    /\ tick0.x /\ tick0.y /\ x_tilted /\ y_tilted
    /\ tick0.prev /\ ~ btn_prev
    /\ tickev = <<EV_GAP_WORD>>

\* C17: as long as every sensor read has failed, input_task has emitted no
\* Dot and no Dash and latched no axis, and the button framing works: the
\* press count is the number of presses since the last EndMessage, and the
\* k-th release since then emits the k-th of GapLetter, GapWord,
\* EndMessage, as C11 says of a sensor that reports no tilt.
C17_FramingWithoutSensor ==
    allfail
        => ( /\ clean /\ run = << >> /\ ~ x_tilted /\ ~ y_tilted
             /\ \A k \in 1..Len(tickev) : tickev[k] \notin TiltEvents
             /\ pc # "send_btn" => button_press_count = npress
             /\ lastrel.nrel >= 1
                   => (lastrel.nrel <= 3 /\ lastrel.e = Cycle[lastrel.nrel]) )

\* every read so far has failed and the third release has sent EndMessage
C17_Witness ==
    /\ allfail
    /\ TickDone /\ ~ sample.ok
    /\ lastrel.nrel = 3 /\ lastrel.e = EV_END_MSG
    /\ tickev = <<EV_END_MSG>>

-----------------------------------------------------------------------------
(* Properties of the message boundary, checked under SpecEnc *)

\* the buffer after encoder_task, holding the buffer o, has handled the
\* events h[a], ..., h[b] in this order.  The range is halved, not peeled,
\* and the first half is computed before the second is entered, to keep
\* the evaluation shallow.
RECURSIVE EncodeRange(_, _, _, _)
EncodeRange(h, o, a, b) ==
    IF Len(o) >= 0 /\ a > b THEN o
    ELSE IF a = b THEN Handled(h[a], o)
    ELSE LET m == (a + b) \div 2
         IN  EncodeRange(h, EncodeRange(h, o, a, m), m + 1, b)

\* the buffer after encoder_task has handled the first k events of h,
\* starting from the empty buffer
EncodeUpTo(h, k) == EncodeRange(h, << >>, 1, k)

\* what main.c prints around the message
Frames == {<< >>, Str_Complete \o Str_Message, Str_Sending \o Str_SentReset}

\* C18: when encoder_task has handled an EndMessage, it has written the
\* whole buffer to stdout exactly once, the buffer is empty again when the
\* next event is received, and the message written is the encoding, from
\* the empty buffer, of the events received since the previous EndMessage.
C18_FlushAndReset ==
    ev = EV_END_MSG
        => ( /\ out = << >>
             /\ msg = EncodeUpTo(hist, Len(hist))
             /\ \E a, b \in Frames : wr = a \o msg \o b )

\* main.c's encoder_task has flushed a message of several events and holds
\* an empty buffer for the next one
C18_Witness ==
    /\ prog = "main"
    /\ ev = EV_END_MSG
    /\ Len(hist) >= 3 /\ hist[1] # hist[2]
    /\ out0 # << >> /\ IsPrefix(out0, msg)
    /\ Len(wr) > Len(msg)
    /\ out = << >>

-----------------------------------------------------------------------------
(* Properties of a single tick of input_task, checked under SpecIn *)

\* C19: a tick emits at most one of Dot and Dash; a tick that reads both
\* axes above MOVE_THRESHOLD with X not latched emits Dot; and when the
\* button code is reached after a tilt emission the press count is 1.
C19_OneSymbolPerTick ==
    /\ Len(SelectSeq(tickev, LAMBDA e : e \in TiltEvents)) <= 1
    /\ (TiltDone /\ XTilt(sample) /\ YTilt(sample) /\ ~ tick0.x)
          => (tickev # << >> /\ tickev[1] = EV_DOT)
    /\ (pc = "gpio" /\ tickev # << >>)
          => (tickev[1] \in TiltEvents /\ button_press_count = 1)

\* both axes tilted with neither latched and the press count at 2: the tick
\* has emitted Dot alone and the press count is 1
C19_Witness ==
    /\ pc = "gpio" /\ q = << >>
    /\ XTilt(sample) /\ YTilt(sample)
    /\ ~ tick0.x /\ ~ tick0.y /\ tick0.n = 2
    /\ tickev = <<EV_DOT>>
    /\ x_tilted /\ ~ y_tilted
    /\ button_press_count = 1

\* C20: button_press_count is 0, 1, 2 or 3 in every reachable state of
\* input_task, whatever the samples (tilts, failed reads) and the button
\* levels have been.
C20_PressCountRange == button_press_count \in 0..3

\* the press count has reached 3 on a press that followed a tilt emission
C20_Witness ==
    /\ TickDone
    /\ button_press_count = 3
    /\ btn_prev
    /\ ~ clean

Framing == {EV_GAP_LETTER, EV_GAP_WORD, EV_END_MSG}

\* input_task has read BUTTON1 released in the tick just ended, having read
\* it pressed in the tick before
ReleaseTick == TickDone /\ tick0.prev /\ ~ btn_prev

\* C21: when input_task detects a release the press count is 1, 2 or 3 and
\* the event it sends is the framing event of that count; the tick of a
\* release emits exactly one framing event, and a tick without a release
\* emits none.
C21_ReleaseAlwaysEmits ==
    /\ pc = "send_btn"
          => ( /\ btn_prev /\ ~ btn_now
               /\ button_press_count \in 1..3
               /\ pending = Cycle[button_press_count] )
    /\ (pc = "gpio" /\ tickev # << >>) => tickev[1] \notin Framing
    /\ ReleaseTick
          => Len(SelectSeq(tickev, LAMBDA e : e \in Framing)) = 1
    /\ (TickDone /\ ~ ReleaseTick)
          => Len(SelectSeq(tickev, LAMBDA e : e \in Framing)) = 0

\* the button was held across a tilt: the tick of the release has emitted
\* Dot and then GapLetter
C21_Witness ==
    /\ ReleaseTick
    /\ tick0.n >= 2
    /\ tickev = <<EV_DOT, EV_GAP_LETTER>>
    /\ button_press_count = 1

-----------------------------------------------------------------------------
(* Properties of the pair of tasks running for ever, checked under SpecLive *)

\* C22: in every reachable state one of the two tasks can take a step; the
\* oldest event in g_morse_q is always eventually received; a receive takes
\* the oldest event, encoder_task handles it, and every other event moves
\* one place forward, while a send adds its event behind the at most
\* MORSE_Q_LEN - 1 events waiting, so that every event sent is received
\* after at most MORSE_Q_LEN receives; and the receive of an EndMessage
\* ends with the message flushed and the buffer empty.
C22_NoDeadlockAndProgress ==
    /\ [](ENABLED NextLive)
    /\ [](Len(q) <= MORSE_Q_LEN /\ dropped = << >>)
    /\ \A b \in {0, 1} : (q # << >> /\ turn = b) ~> (turn # b)
    /\ [][ turn' # turn
              => ( /\ q # << >> /\ q' = Tail(q)
                   /\ ev' = Head(q) /\ Last(hist') = Head(q)
                   /\ Head(q) = EV_END_MSG
                         => ( /\ out' = << >> /\ msg' # << >>
                              /\ \E a, c \in Frames : wr' = a \o msg' \o c ) )
          ]_vars
    /\ [][ (turn' = turn /\ q' # q)
              => (\E e \in morse_event_t : q' = Append(q, e)) ]_vars

\* main.c: input_task found g_morse_q full at a send and is still in it;
\* encoder_task has since received the EndMessage at the head of the
\* queue, flushed the message and emptied the buffer
C22_Witness ==
    /\ prog = "main"
    /\ pc = "send_btn" /\ waited
    /\ Len(q) = MORSE_Q_LEN - 1
    /\ ev = EV_END_MSG /\ hist # <<EV_END_MSG>>
    /\ out = << >> /\ msg # << >>

=============================================================================
